---- MODULE Spec2Model ----
(***************************************************************************)
(* examples/mnist/mnist.py of pt-sdae: the caching dataset CachedMNIST and *)
(* the orchestration of main (pretrain, finetune, k-means evaluation).     *)
(*                                                                         *)
(* Two specifications share the state:                                     *)
(*   SpecDS    an arbitrary client calls __getitem__ / __len__ on one      *)
(*             CachedMNIST instance;                                       *)
(*   SpecMain  one run of main (FairMain adds the progress of a            *)
(*             synchronous, single-threaded script).                       *)
(*                                                                         *)
(* External libraries are modelled by what this file relies on:            *)
(*   - torchvision MNIST: ds[index] indexes a tensor of len(ds) rows, so   *)
(*     it accepts -len(ds) <= index < len(ds) (negative indices count      *)
(*     from the end) and raises IndexError otherwise; the transform runs   *)
(*     once per successful read;                                           *)
(*   - DataLoader(shuffle=False): indices 0 .. len(dataset)-1 in order,    *)
(*     in batches of batch_size, the last one possibly shorter;            *)
(*   - ae.pretrain / ae.train: opaque calls that may traverse ds_train,    *)
(*     train invoking update_callback once per epoch;                      *)
(*   - any library call may raise.                                         *)
(***************************************************************************)
EXTENDS Integers, Sequences, FiniteSets, TLC

VARIABLES
    cuda,            \* the --cuda flag / CachedMNIST.cuda
    testing_mode,    \* the --testing-mode flag / CachedMNIST.testing_mode
    finetune_epochs, \* the --finetune-epochs option
    dsLen,           \* len(self.ds): size of the underlying MNIST split
    cache,           \* CachedMNIST._cache: index -> stored list object
    transformCalls,  \* instrumentation: index -> number of _transformation runs
    last,            \* outcome of the latest __getitem__ / __len__ call
    pc,              \* position of main
    epoch,           \* epochs of ae.train already reported to the callback
    pos,             \* next dataset index the evaluation DataLoader yields
    features,        \* main's list `features` (one entry per batch)
    actual,          \* main's list `actual` (one entry per batch)
    reads,           \* instrumentation: indices read by the evaluation loop
    handed,          \* what k-means and cluster_accuracy were given
    log              \* observable events of main, in order

vars == <<cuda, testing_mode, finetune_epochs, dsLen, cache, transformCalls,
          last, pc, epoch, pos, features, actual, reads, handed, log>>

dsVars == <<cuda, testing_mode, dsLen, cache, transformCalls>>
loopVars == <<pos, features, actual, reads, handed>>

------------------------------------------------------------------------------
(* Bounds of the model and constants of the program *)

SmallLen == 2        \* a small underlying dataset (normal mode only)
BigLen == 130        \* an underlying dataset larger than the test-mode length
MainLen == 2050      \* the training split in runs of main: two full batches and a rest
MaxEpochs == 1       \* finetune_epochs ranges over 0 .. MaxEpochs

TestLen == 128       \* __len__ in testing mode
EvalBatch == 1024    \* batch_size of the evaluation DataLoader
Scale == 2           \* _transformation scales by 0.02; values are kept in hundredths

None == "None"
NotHanded == [given |-> FALSE, features |-> <<>>, actual |-> <<>>]
IndexError == "IndexError"

------------------------------------------------------------------------------
(* The underlying dataset: torchvision MNIST with the Lambda transform *)

\* raw content of sample j, 0 <= j < n: an image (two bytes here) and a target
Img(j) == <<j % 256, (j \div 256) % 256>>
Target(j) == j % 10

\* CachedMNIST._transformation: bytes -> float tensor * 0.02
Transformation(img) == [k \in DOMAIN img |-> img[k] * Scale]

\* self.ds[index] succeeds exactly for the indices a tensor of n rows accepts
DsValid(n, i) == -n <= i /\ i < n

\* self.ds[index]: the (transformed image, target) pair of the row index denotes
DsItem(n, i) ==
    LET j == IF i < 0 THEN i + n ELSE i
    IN  [x |-> Transformation(Img(j)), y |-> Target(j)]

------------------------------------------------------------------------------
(* CachedMNIST *)

\* `index not in self._cache` negated
CacheHitNever(c, i) == FALSE
CacheHit(c, i) == i \in DOMAIN c

\* device of the feature tensor / of the label after the `if self.cuda` block
XDeviceCpu(cu) == "cpu"
XDevice(cu) == IF cu THEN "cuda" ELSE "cpu"
YDevice(cu) == IF cu THEN "cuda" ELSE "int"

Calls(tc, i) == IF i \in DOMAIN tc THEN tc[i] ELSE 0

\* the list object lines 41-44 store for index i; id stands for the identity of
\* the freshly allocated list (index and allocation number)
Fill(tc, n, cu, i) ==
    [id   |-> <<i, Calls(tc, i) + 1>>,
     x    |-> DsItem(n, i).x,
     y    |-> DsItem(n, i).y,
     xdev |-> XDevice(cu),
     ydev |-> YDevice(cu)]

\* _cache after __getitem__ was called once for every index of S (all valid)
CacheAfter(c, tc, n, cu, S) ==
    [j \in DOMAIN c \cup S |->
        IF j \in S /\ ~CacheHit(c, j) THEN Fill(tc, n, cu, j) ELSE c[j]]

\* the transform counter after the same calls
CallsAfter(c, tc, S) ==
    LET miss == {j \in S : ~CacheHit(c, j)}
    IN  [j \in DOMAIN tc \cup miss |->
            Calls(tc, j) + (IF j \in miss THEN 1 ELSE 0)]

\* CachedMNIST.__len__
LenFull(tm, n) == n
DatasetLen(tm, n) == IF tm THEN TestLen ELSE n

\* the indices a client of the dataset tries: around every boundary
Probes(n) == {-n - 1, -n, -1, 0, TestLen - 1, TestLen, n - 1, n}

\* CachedMNIST.__getitem__(i)
GetItem(i) ==
    /\ pc = "client"
    /\ IF ~CacheHit(cache, i) /\ ~DsValid(dsLen, i)
       THEN \* self.ds[index] raises before anything is stored
            /\ last' = [op |-> "getitem", index |-> i, hit |-> FALSE,
                        raised |-> IndexError, value |-> None]
            /\ UNCHANGED <<cache, transformCalls>>
       ELSE /\ cache' = CacheAfter(cache, transformCalls, dsLen, cuda, {i})
            /\ transformCalls' = CallsAfter(cache, transformCalls, {i})
            /\ last' = [op |-> "getitem", index |-> i,
                        hit |-> CacheHit(cache, i), raised |-> None,
                        value |-> cache'[i]]
    /\ UNCHANGED <<cuda, testing_mode, finetune_epochs, dsLen, pc, epoch,
                   loopVars, log>>

\* CachedMNIST.__len__()
GetLen ==
    /\ pc = "client"
    /\ last' = [op |-> "len", index |-> 0, hit |-> FALSE,
                raised |-> None, value |-> DatasetLen(testing_mode, dsLen)]
    /\ UNCHANGED <<dsVars, finetune_epochs, pc, epoch, loopVars, log>>

NoCall ==
    [op |-> "none", index |-> 0, hit |-> FALSE, raised |-> None, value |-> None]

\* CachedMNIST.__init__ followed by no call yet
InitDS ==
    /\ cuda \in BOOLEAN
    /\ testing_mode \in BOOLEAN
    /\ dsLen \in {SmallLen, BigLen}
    /\ testing_mode => dsLen >= TestLen
    /\ cache = <<>>
    /\ transformCalls = <<>>
    /\ last = NoCall
    /\ pc = "client"
    /\ finetune_epochs = 0
    /\ epoch = 0
    /\ pos = 0
    /\ features = <<>>
    /\ actual = <<>>
    /\ reads = <<>>
    /\ handed = NotHanded
    /\ log = <<>>

NextDS == (\E i \in Probes(dsLen) : GetItem(i)) \/ GetLen

SpecDS == InitDS /\ [][NextDS]_vars

------------------------------------------------------------------------------
(* main *)

\* autoencoder.encoder(batch) in eval mode: a fixed map, row by row
Encoder(x) == [z |-> x]

\* torch.cat over a list of per-batch tensors
RECURSIVE Cat(_)
Cat(list) == IF list = <<>> THEN <<>> ELSE Head(list) \o Cat(Tail(list))

\* end (exclusive) of the batch the DataLoader starts at index p of a dataset
\* of length n: batch_size entries, fewer at the end (drop_last is not set)
BatchEndNoClamp(p, n) == p + EvalBatch
BatchEnd(p, n) == IF p + EvalBatch < n THEN p + EvalBatch ELSE n

\* `if not testing_mode:` guarding the confusion matrix, the embedding and close
WritesReportAlways(tm) == TRUE
WritesReport(tm) == ~tm

Emit(e) == log' = Append(log, e)

\* line 89: writer = SummaryWriter()
OpenWriter ==
    /\ pc = "start"
    /\ Emit("writer.open")
    /\ pc' = "setup"
    /\ UNCHANGED <<dsVars, finetune_epochs, last, epoch, loopVars>>

\* lines 98-105: the two datasets (empty caches) and the autoencoder
Setup ==
    /\ pc = "setup"
    /\ cache' = <<>>
    /\ transformCalls' = <<>>
    /\ pc' = "pretrain"
    /\ UNCHANGED <<cuda, testing_mode, finetune_epochs, dsLen, last, epoch,
                   loopVars, log>>

\* the library traversing ds_train (touched) or not during a stage
Traverse(touched) ==
    LET S == IF touched
             THEN 0 .. DatasetLen(testing_mode, dsLen) - 1
             ELSE {}
    IN  /\ cache' = CacheAfter(cache, transformCalls, dsLen, cuda, S)
        /\ transformCalls' = CallsAfter(cache, transformCalls, S)

\* lines 106-107: ae.pretrain is entered
PretrainStart ==
    /\ pc = "pretrain"
    /\ Emit("pretrain.start")
    /\ pc' = "in_pretrain"
    /\ UNCHANGED <<dsVars, finetune_epochs, last, epoch, loopVars>>

\* a faulty variant: control passes over the finetune stage
PretrainReturnSkipsTrain ==
    /\ pc = "in_pretrain"
    /\ \E touched \in BOOLEAN : Traverse(touched)
    /\ Emit("pretrain.return")
    /\ pc' = "kmeans"
    /\ UNCHANGED <<cuda, testing_mode, finetune_epochs, dsLen, last, epoch,
                   loopVars>>

\* line 117: ae.pretrain returns
PretrainReturn ==
    /\ pc = "in_pretrain"
    /\ \E touched \in BOOLEAN : Traverse(touched)
    /\ Emit("pretrain.return")
    /\ pc' = "train"
    /\ UNCHANGED <<cuda, testing_mode, finetune_epochs, dsLen, last, epoch,
                   loopVars>>

\* lines 118-120: ae.train is entered
TrainStart ==
    /\ pc = "train"
    /\ Emit("train.start")
    /\ epoch' = 0
    /\ pc' = "in_train"
    /\ UNCHANGED <<dsVars, finetune_epochs, last, loopVars>>

\* one epoch of ae.train, ending in update_callback: lines 92-97,
\* training_callback, writer.add_scalars
TrainingCallback ==
    /\ pc = "in_train"
    /\ epoch < finetune_epochs
    /\ \E touched \in BOOLEAN : Traverse(touched)
    /\ Emit("scalars")
    /\ epoch' = epoch + 1
    /\ UNCHANGED <<cuda, testing_mode, finetune_epochs, dsLen, last, pc,
                   loopVars>>

\* line 131: ae.train returns
TrainReturn ==
    /\ pc = "in_train"
    /\ epoch = finetune_epochs
    /\ Emit("train.return")
    /\ pc' = "kmeans"
    /\ UNCHANGED <<dsVars, finetune_epochs, last, epoch, loopVars>>

\* lines 132-141: the evaluation DataLoader, KMeans, the empty lists
KMeansStart ==
    /\ pc = "kmeans"
    /\ Emit("evaluate.start")
    /\ pos' = 0
    /\ features' = <<>>
    /\ actual' = <<>>
    /\ reads' = <<>>
    /\ pc' = "loop"
    /\ UNCHANGED <<dsVars, finetune_epochs, last, epoch, handed>>

\* lines 142-148: one iteration of the loop; the DataLoader reads the next
\* indices through ds_train.__getitem__ and collates them into [batch, value]
LoopBatch ==
    /\ pc = "loop"
    /\ pos < DatasetLen(testing_mode, dsLen)
    /\ LET hi    == BatchEnd(pos, DatasetLen(testing_mode, dsLen))
           idx   == [k \in 1 .. hi - pos |-> pos + k - 1]
           c2    == CacheAfter(cache, transformCalls, dsLen, cuda, pos .. hi - 1)
           batch == << [k \in DOMAIN idx |-> c2[idx[k]].x],
                       [k \in DOMAIN idx |-> c2[idx[k]].y] >>
       IN  /\ cache' = c2
           /\ transformCalls' = CallsAfter(cache, transformCalls, pos .. hi - 1)
           /\ reads' = reads \o idx
           /\ actual' = IF Len(batch) = 2 THEN Append(actual, batch[2])
                                           ELSE actual
           /\ features' = Append(features,
                                 [k \in DOMAIN idx |-> Encoder(batch[1][k])])
           /\ pos' = hi
    /\ UNCHANGED <<cuda, testing_mode, finetune_epochs, dsLen, last, pc, epoch,
                   handed, log>>

\* lines 149-153: concatenate, k-means, cluster_accuracy, report the accuracy
Cluster ==
    /\ pc = "loop"
    /\ pos >= DatasetLen(testing_mode, dsLen)
    /\ handed' = [given |-> TRUE, features |-> Cat(features),
                  actual |-> Cat(actual)]
    /\ Emit("accuracy")
    /\ pc' = "report"
    /\ UNCHANGED <<dsVars, finetune_epochs, last, epoch, pos, features, actual,
                   reads>>

\* line 154 in test mode: nothing more is done
ReportSkip ==
    /\ pc = "report"
    /\ ~WritesReport(testing_mode)
    /\ pc' = "done"
    /\ UNCHANGED <<dsVars, finetune_epochs, last, epoch, loopVars, log>>

\* lines 155-159: the confusion matrix is saved as confusion_<uuid>.png
SaveFig ==
    /\ pc = "report"
    /\ WritesReport(testing_mode)
    /\ Emit("png")
    /\ pc' = "embed"
    /\ UNCHANGED <<dsVars, finetune_epochs, last, epoch, loopVars>>

\* lines 160-165: writer.add_embedding
AddEmbedding ==
    /\ pc = "embed"
    /\ Emit("embedding")
    /\ pc' = "close"
    /\ UNCHANGED <<dsVars, finetune_epochs, last, epoch, loopVars>>

\* line 166: writer.close()
CloseWriter ==
    /\ pc = "close"
    /\ Emit("writer.close")
    /\ pc' = "done"
    /\ UNCHANGED <<dsVars, finetune_epochs, last, epoch, loopVars>>

\* a faulty variant: the exception is swallowed and main carries on
RaiseSwallowed ==
    /\ pc \notin {"client", "done", "failed"}
    /\ Emit("raise")
    /\ UNCHANGED <<dsVars, finetune_epochs, last, pc, epoch, loopVars>>

\* a library call of the current step raises; main has no try/except
Raise ==
    /\ pc \notin {"client", "done", "failed"}
    /\ Emit("raise")
    /\ pc' = "failed"
    /\ UNCHANGED <<dsVars, finetune_epochs, last, epoch, loopVars>>

\* the command line is parsed; main is about to run
InitMain ==
    /\ cuda \in BOOLEAN
    /\ testing_mode \in BOOLEAN
    /\ finetune_epochs \in 0 .. MaxEpochs
    /\ dsLen = MainLen
    /\ cache = <<>>
    /\ transformCalls = <<>>
    /\ last = NoCall
    /\ pc = "start"
    /\ epoch = 0
    /\ pos = 0
    /\ features = <<>>
    /\ actual = <<>>
    /\ reads = <<>>
    /\ handed = NotHanded
    /\ log = <<>>

Progress ==
    \/ OpenWriter
    \/ Setup
    \/ PretrainStart
    \/ PretrainReturn
    \/ TrainStart
    \/ TrainingCallback
    \/ TrainReturn
    \/ KMeansStart
    \/ LoopBatch
    \/ Cluster
    \/ ReportSkip
    \/ SaveFig
    \/ AddEmbedding
    \/ CloseWriter

NextMain == Progress \/ Raise

SpecMain == InitMain /\ [][NextMain]_vars

\* the script is synchronous: a step that does not raise completes
FairMain == SpecMain /\ WF_vars(Progress)

------------------------------------------------------------------------------
(* Properties of CachedMNIST, checked under SpecDS *)

\* C1: the underlying read and the transform for an index run on its first
\* read only (the instrumented transform counts at most one run per index);
\* a read of an index that is already cached returns the stored object itself
\* and leaves the counter and the entry as they were.
C1_ReadOnce ==
    [][ /\ \A i \in DOMAIN transformCalls' : transformCalls'[i] <= 1
        /\ \A i \in DOMAIN cache :
              (last'.op = "getitem" /\ last'.index = i)
              => /\ last'.value = cache[i]
                 /\ last'.value.id = cache[i].id
                 /\ cache'[i] = cache[i]
                 /\ transformCalls' = transformCalls ]_vars

\* C1 witness: a read served from the cache, after exactly one transform run
C1_Witness ==
    /\ last.op = "getitem"
    /\ last.hit
    /\ last.value = cache[last.index]
    /\ transformCalls[last.index] = 1

\* C2: __len__ returns 128 in test mode and the underlying size otherwise,
\* whatever has been read so far.
C2_Len ==
    last.op = "len" => last.value = (IF testing_mode THEN 128 ELSE dsLen)

\* C2 witness: __len__ answered 128 in test mode with entries already cached
C2_Witness ==
    /\ last.op = "len"
    /\ testing_mode
    /\ last.value = 128
    /\ last.value # dsLen
    /\ Cardinality(DOMAIN cache) >= 2

\* C3 (as claimed): an index outside [0, __len__()) fails with an index error,
\* an index inside returns the transformed sample.
C3_IndexErrorOutsideLen ==
    last.op = "getitem" =>
        IF last.index \in 0 .. DatasetLen(testing_mode, dsLen) - 1
        THEN /\ last.raised = None
             /\ last.value.x = Transformation(Img(last.index))
             /\ last.value.y = Target(last.index)
        ELSE last.raised = IndexError

\* C6 (as claimed): every index ever filled is still cached with the object of
\* its first fill, a failed read leaves no entry, and the cache never holds more
\* entries than the underlying dataset has samples.
C6_CacheGrowsBounded ==
    /\ \A i \in DOMAIN transformCalls :
          i \in DOMAIN cache /\ cache[i].id = <<i, 1>>
    /\ (last.op = "getitem" /\ last.raised = IndexError)
          => last.index \notin DOMAIN cache
    /\ Cardinality(DOMAIN cache) <= dsLen

------------------------------------------------------------------------------
(* Properties of main, checked under SpecMain / FairMain *)

Count(e) == Cardinality({k \in DOMAIN log : log[k] = e})

IsPrefix(a, b) == Len(a) <= Len(b) /\ \A k \in DOMAIN a : a[k] = b[k]

StageEvents ==
    <<"pretrain.start", "pretrain.return", "train.start", "train.return",
      "evaluate.start", "accuracy">>

IsStageEvent(e) == \E k \in DOMAIN StageEvents : StageEvents[k] = e

Stages == SelectSeq(log, IsStageEvent)

\* C4: a test-mode run writes neither the confusion image nor an embedding
\* entry, and completes unless a library call raises; a completed normal run
\* has written exactly one of each; both are written only after the accuracy
\* was reported.
C4_ReportOutputs ==
    /\ [](testing_mode => Count("png") = 0 /\ Count("embedding") = 0)
    /\ [](Count("png") <= 1 /\ Count("embedding") <= 1)
    /\ []((pc = "done" /\ ~testing_mode)
            => Count("png") = 1 /\ Count("embedding") = 1)
    /\ [](\A k \in DOMAIN log :
            log[k] \in {"png", "embedding"}
            => \E j \in 1 .. k - 1 : log[j] = "accuracy")
    /\ (testing_mode /\ [](pc # "failed")) => <>(pc = "done")

\* C4 witness: a completed normal run with its image and its embedding entry
C4_Witness ==
    /\ pc = "done"
    /\ ~testing_mode
    /\ Count("png") = 1
    /\ Count("embedding") = 1
    /\ Count("accuracy") = 1

\* C5: the stage events occur in the one order pretrain, finetune, evaluate,
\* each at most once, none before the previous stage returned, and a completed
\* run went through all of them, for every value of the flags.
C5_StageOrder ==
    /\ IsPrefix(Stages, StageEvents)
    /\ pc = "done" => Stages = StageEvents

\* C5 witness: a completed run with a non-zero epoch count
C5_Witness ==
    /\ pc = "done"
    /\ Stages = StageEvents
    /\ Count("scalars") >= 1

\* C7: a raised exception ends the run: no step follows it, so no later stage
\* starts and nothing is written after it.
C7_FailureIsFatal ==
    /\ [][pc # "failed"]_vars
    /\ [](\A k \in DOMAIN log :
            log[k] = "raise" => k = Len(log) /\ pc = "failed")

\* C7 witness: a run that failed inside the finetune stage
C7_Witness ==
    /\ pc = "failed"
    /\ Count("train.start") = 1
    /\ Count("train.return") = 0
    /\ log[Len(log)] = "raise"

\* C9: the evaluation loop reads the indices 0, 1, 2, ... in order, each once,
\* in batches of at most 1024; what k-means and cluster_accuracy receive has
\* one row per index of ds_train, row k being the sample of index k.
C9_EvalOrder ==
    LET n == DatasetLen(testing_mode, dsLen)
    IN  /\ \A k \in DOMAIN reads : reads[k] = k - 1
        /\ Len(reads) <= n
        /\ \A b \in DOMAIN features : Len(features[b]) <= 1024
        /\ \A b \in DOMAIN actual : Len(actual[b]) <= 1024
        /\ handed.given =>
             /\ Len(reads) = n
             /\ Len(handed.features) = n
             /\ Len(handed.actual) = n
             /\ \A k \in 1 .. n :
                   /\ handed.features[k] = Encoder(Transformation(Img(k - 1)))
                   /\ handed.actual[k] = Target(k - 1)

\* C9 witness: a traversal of more than one batch was handed over
C9_Witness ==
    /\ handed.given
    /\ Len(features) >= 2
    /\ Len(handed.features) = dsLen
    /\ Len(features[Len(features)]) < 1024

\* C10 (as claimed): every run that completes has closed the writer, in test
\* mode too, and no write to the writer follows the close.
C10_WriterClosed ==
    pc = "done" =>
        /\ Count("writer.close") = 1
        /\ \A k \in DOMAIN log :
              log[k] = "writer.close"
              => \A j \in k + 1 .. Len(log) :
                    log[j] \notin {"scalars", "embedding"}

====
